---- MODULE Spec2Model ----
(***************************************************************************)
(* Universal Sparse Anomaly Detector (src/erdos-solver/src/encoders/usad.js) *)
(*                                                                         *)
(* Number representation.  float64 quantities are carried as integers:     *)
(*   - a robust z-score / elevation of one vector is carried as its        *)
(*     numerator over the vector's common positive scale 2*1.4826*(mad+eps)*)
(*     (every later step of the encoder is positively homogeneous, and the *)
(*     cosine of two signatures does not depend on either scale);          *)
(*   - a cosine, distance, score or threshold is carried in units of 1/ONE,*)
(*     rounded down where float64 would round;                             *)
(*   - alpha and clipQuantile are rationals [num, den], den > 0.           *)
(* The eps = 1e-12 of cosineSparse only keeps the denominator positive; it *)
(* is below the unit 1/ONE and is carried as 0 for non-empty signatures.   *)
(*                                                                         *)
(* Where a result is compared exactly, it is carried to first order in     *)
(* eps, as c0 + c1 * eps: c0 is the value above and c1 (cosineSparseEps,   *)
(* baseCosineEps) the coefficient of eps, in units of 1/ONE.  float64      *)
(* resolves a relative difference of eps (1e-12 > 2^-53) and not one of    *)
(* eps^2, which is dropped; rounding errors of the last bit are not        *)
(* carried.                                                                *)
(***************************************************************************)
EXTENDS Integers, Sequences, FiniteSets, TLC

(***************************************************************************)
(* Generic helpers over JavaScript arrays (modelled as 1-based sequences). *)
(***************************************************************************)
Abs(x) == IF x < 0 THEN -x ELSE x

Sign(x) == IF x > 0 THEN 1 ELSE IF x < 0 THEN -1 ELSE 0

Max2(a, b) == IF a >= b THEN a ELSE b

Min2(a, b) == IF a <= b THEN a ELSE b

\* Math.ceil(num / den) for den > 0
CeilDiv(num, den) == -((-num) \div den)

\* Math.sqrt on exact integers below 2^31, rounded down (46340 = floor(sqrt(2^31)))
RECURSIVE SqrtBetween(_, _, _)
SqrtBetween(n, lo, hi) ==
  IF hi - lo <= 1 THEN lo
  ELSE LET mid == (lo + hi) \div 2
       IN  IF mid * mid <= n THEN SqrtBetween(n, mid, hi) ELSE SqrtBetween(n, lo, mid)

Sqrt(n) == SqrtBetween(n, 0, Min2(n, 46340) + 1)

\* arr.reduce((s, v) => s + v, 0)
RECURSIVE Sum(_)
Sum(s) == IF s = <<>> THEN 0 ELSE Head(s) + Sum(Tail(s))

\* arr.slice(0, n)
\* mutant: the slice not taken, the whole ranking kept
Slice_Whole(s, n) == s

Slice(s, n) == SubSeq(s, 1, Min2(n, Len(s)))

\* the array with elements f[1..Len(f)], held element by element
Array(f) == SubSeq(f, 1, Len(f))

\* arr.slice().sort((a, b) => a - b): element j goes to the place given by the
\* number of elements that sort before it (smaller, or equal and earlier)
SortAsc(s) ==
  LET RankOf(j) == 1 + Cardinality({m \in 1..Len(s) : s[m] < s[j] \/ (s[m] = s[j] /\ m < j)})
      Sorted(ranks) ==
        Array([i \in 1..Len(s) |-> s[CHOOSE j \in 1..Len(s) : ranks[j] = i]])
  IN  Sorted(Array([j \in 1..Len(s) |-> RankOf(j)]))

(***************************************************************************)
(* Keyed hash.  HashResidue tabulates, for feature indices 0..127, the     *)
(* 64-bit value u64leFromDigest16(blake2b(to8LE(i), 16, key)) modulo 840,  *)
(* computed by running the source's blake2b; blake2bIndex is exact for     *)
(* every dim that divides 840.                                             *)
(***************************************************************************)
HashResidue(key) ==
  IF key = "salt1" THEN
    <<
       134, 102, 298, 97, 316, 148, 615, 27, 471, 506, 673, 384, 272,
       287, 93, 401, 248, 442, 326, 460, 722, 459, 623, 255, 205, 781,
       149, 800, 820, 790, 116, 735, 733, 158, 562, 480, 580, 64, 404,
       346, 120, 502, 490, 831, 406, 474, 552, 742, 417, 681, 38, 690,
       89, 772, 316, 693, 472, 478, 284, 626, 76, 265, 4, 227, 40,
       799, 313, 219, 173, 419, 664, 653, 101, 400, 296, 264, 597,
       569, 478, 442, 201, 479, 204, 831, 294, 805, 248, 554, 11, 394,
       560, 453, 3, 530, 354, 680, 461, 674, 430, 44, 424, 526, 652,
       251, 794, 149, 111, 577, 466, 754, 30, 634, 480, 389, 786, 489,
       575, 485, 90, 429, 186, 736, 333, 746, 588, 473, 312, 273
    >>
  ELSE
    <<
       481, 783, 129, 243, 634, 737, 285, 736, 125, 484, 233, 752,
       797, 153, 611, 536, 713, 509, 402, 693, 64, 22, 723, 43, 198,
       271, 4, 757, 608, 732, 689, 143, 689, 638, 91, 29, 274, 65,
       232, 441, 415, 347, 649, 834, 835, 783, 274, 712, 305, 8, 210,
       332, 597, 301, 835, 51, 277, 281, 65, 149, 372, 103, 710, 6,
       529, 58, 324, 219, 130, 809, 104, 613, 424, 630, 432, 122, 29,
       509, 73, 635, 672, 618, 814, 544, 706, 839, 371, 282, 498, 155,
       57, 332, 31, 310, 519, 223, 786, 798, 49, 358, 67, 289, 528,
       821, 192, 695, 205, 218, 772, 404, 202, 238, 772, 466, 514,
       326, 331, 237, 18, 763, 549, 166, 278, 135, 376, 486, 797, 207
    >>

blake2bIndex(i, dim, key) == HashResidue(key)[i + 1] % dim

(***************************************************************************)
(* Robust statistics                                                       *)
(***************************************************************************)
\* twice the median (the mean of the two central order statistics when n is even)
median2(arr) ==
  LET Middle(a, n) ==
        IF n % 2 = 1 THEN 2 * a[((n - 1) \div 2) + 1]
        ELSE a[(n \div 2) + 1] + a[n \div 2]
  IN  Middle(SortAsc(arr), Len(arr))

\* numerators of z[i] = (x[i] - med) / scale over the common scale 2*1.4826*(mad+eps)
robustZ(vec) ==
  LET Centre(med2) == Array([i \in 1..Len(vec) |-> 2 * vec[i] - med2])
  IN  Centre(median2(vec))

\* 4 * mad of robustZ (the part of scale = 1.4826 * (mad + eps) of order 1): the
\* numerators of robustZ(vec) are over 1.4826 * mad4(vec) / 2
mad4(vec) ==
  LET Dev(med2) == Array([i \in 1..Len(vec) |-> Abs(2 * vec[i] - med2)])
  IN  IF vec = <<>> THEN 0 ELSE median2(Dev(median2(vec)))

(***************************************************************************)
(* Sparse signature encoding                                               *)
(***************************************************************************)
EmptySignature == [idx |-> <<>>, val |-> <<>>, norm2 |-> 0]

\* stands for an entry +Infinity: larger than every finite quantity the encoder
\* forms.  Exact where no median or MAD falls on the entry, as in
\* NonFiniteVectors: there every comparison with it and every difference of a
\* finite quantity from it comes out as with the IEEE value, and the difference
\* Infinity - Infinity that the clip quantile can form is NaN (see Elevation).
Infinity == 100

\* stands for NaN: a value that is not 0 and that every comparison finds
\* neither larger nor smaller than anything
NaN == 9999

\* x stands for +Infinity or -Infinity (the finite quantities formed stay below)
IsInfinite(x) == x # NaN /\ Abs(x) >= Infinity

\* elevation damping: elev[i] = sign(z[i]) * max(|z[i]| - q, 0), or z when disabled;
\* abs[i] - q is NaN when both are infinite, Math.max(NaN, 0) is NaN, and so is
\* its product with the sign
Elevation(z, clipQuantile) ==
  IF clipQuantile.num > 0 /\ clipQuantile.num < clipQuantile.den
  THEN LET qpos(n) == Max2(0, Min2(n - 1, CeilDiv(n * clipQuantile.num, clipQuantile.den) - 1))
           Quantile(sorted) == sorted[qpos(Len(sorted)) + 1]
           Damp(q) == Array([i \in 1..Len(z) |->
                         IF IsInfinite(q) /\ IsInfinite(z[i]) THEN NaN
                         ELSE Sign(z[i]) * Max2(Abs(z[i]) - q, 0)])
       IN  Damp(Quantile(SortAsc(Array([i \in 1..Len(z) |-> Abs(z[i])]))))
  ELSE z

\* idxs.sort((i, j) => |elev[j]| - |elev[i]|) over the feature indices 0..n-1 (stable):
\* feature j - 1 goes to the place given by the number of features that sort before
\* it (larger |elev|, or equal and earlier); a difference with NaN is NaN, which
\* the sort takes for 0
RankByElev(n, elev) ==
  LET Before(mag, m, j) ==
        IF mag[m] = NaN \/ mag[j] = NaN THEN m < j
        ELSE mag[m] > mag[j] \/ (mag[m] = mag[j] /\ m < j)
      RankOf(mag, j) == 1 + Cardinality({m \in 1..n : Before(mag, m, j)})
      Ranked(ranks) == Array([i \in 1..n |-> (CHOOSE j \in 1..n : ranks[j] = i) - 1])
      Ranks(mag) == Ranked(Array([j \in 1..n |-> RankOf(mag, j)]))
  IN  Ranks(Array([j \in 1..n |-> Abs(elev[j])]))

\* mutant: the placement loop without its "if (v === 0) continue"
PlaceOne_KeepZero(st, orig, elev, hashing) ==
  LET v == elev[orig + 1]
      p1 == blake2bIndex(orig, hashing.dim, "salt1")
      p2 == blake2bIndex(orig, hashing.dim, "salt2")
      wins == Abs(v) > Abs(st.val[st.taken[p1]])
      skip == IF st.taken[p1] = 0 THEN FALSE
              ELSE IF hashing.useDoubleHash
                   THEN IF st.taken[p2] = 0 THEN FALSE ELSE ~wins
                   ELSE ~wins
      chosen == IF st.taken[p1] = 0 THEN p1
                ELSE IF hashing.useDoubleHash /\ st.taken[p2] = 0 THEN p2
                ELSE p1
  IN
  IF skip THEN st
  ELSE IF st.taken[chosen] # 0
       THEN [st EXCEPT !.pos[st.taken[chosen]] = chosen, !.val[st.taken[chosen]] = v]
       ELSE [pos |-> Append(st.pos, chosen), val |-> Append(st.val, v),
             taken |-> [st.taken EXCEPT ![chosen] = Len(st.pos) + 1]]

\* mutant: the contender for p1 takes the slot whatever the magnitudes
PlaceOne_IncomingWins(st, orig, elev, hashing) ==
  LET v == elev[orig + 1]
      p1 == blake2bIndex(orig, hashing.dim, "salt1")
      p2 == blake2bIndex(orig, hashing.dim, "salt2")
      wins == TRUE
      skip == IF st.taken[p1] = 0 THEN FALSE
              ELSE IF hashing.useDoubleHash
                   THEN IF st.taken[p2] = 0 THEN FALSE ELSE ~wins
                   ELSE ~wins
      chosen == IF st.taken[p1] = 0 THEN p1
                ELSE IF hashing.useDoubleHash /\ st.taken[p2] = 0 THEN p2
                ELSE p1
  IN
  IF v = 0 \/ skip THEN st
  ELSE IF st.taken[chosen] # 0
       THEN [st EXCEPT !.pos[st.taken[chosen]] = chosen, !.val[st.taken[chosen]] = v]
       ELSE [pos |-> Append(st.pos, chosen), val |-> Append(st.val, v),
             taken |-> [st.taken EXCEPT ![chosen] = Len(st.pos) + 1]]

\* mutant: the magnitudes compared with >=, a tie going to the contender
PlaceOne_TieToIncoming(st, orig, elev, hashing) ==
  LET v == elev[orig + 1]
      p1 == blake2bIndex(orig, hashing.dim, "salt1")
      p2 == blake2bIndex(orig, hashing.dim, "salt2")
      wins == Abs(v) >= Abs(st.val[st.taken[p1]])
      skip == IF st.taken[p1] = 0 THEN FALSE
              ELSE IF hashing.useDoubleHash
                   THEN IF st.taken[p2] = 0 THEN FALSE ELSE ~wins
                   ELSE ~wins
      chosen == IF st.taken[p1] = 0 THEN p1
                ELSE IF hashing.useDoubleHash /\ st.taken[p2] = 0 THEN p2
                ELSE p1
  IN
  IF v = 0 \/ skip THEN st
  ELSE IF st.taken[chosen] # 0
       THEN [st EXCEPT !.pos[st.taken[chosen]] = chosen, !.val[st.taken[chosen]] = v]
       ELSE [pos |-> Append(st.pos, chosen), val |-> Append(st.val, v),
             taken |-> [st.taken EXCEPT ![chosen] = Len(st.pos) + 1]]

\* one iteration of the placement loop for feature index orig; st = [pos, val, taken],
\* taken[p] = 0 when p is free, else the 1-based place of p in pos
PlaceOne(st, orig, elev, hashing) ==
  LET v == elev[orig + 1]
      p1 == blake2bIndex(orig, hashing.dim, "salt1")
      p2 == blake2bIndex(orig, hashing.dim, "salt2")
      wins == /\ v # NaN /\ st.val[st.taken[p1]] # NaN
              /\ Abs(v) > Abs(st.val[st.taken[p1]])
      skip == IF st.taken[p1] = 0 THEN FALSE
              ELSE IF hashing.useDoubleHash
                   THEN IF st.taken[p2] = 0 THEN FALSE ELSE ~wins
                   ELSE ~wins
      chosen == IF st.taken[p1] = 0 THEN p1
                ELSE IF hashing.useDoubleHash /\ st.taken[p2] = 0 THEN p2
                ELSE p1
  IN
  IF v = 0 \/ skip THEN st
  ELSE IF st.taken[chosen] # 0
       THEN [st EXCEPT !.pos[st.taken[chosen]] = chosen, !.val[st.taken[chosen]] = v]
       ELSE [pos |-> Append(st.pos, chosen), val |-> Append(st.val, v),
             taken |-> [st.taken EXCEPT ![chosen] = Len(st.pos) + 1]]

\* for (const orig of idxs) { ... }
RECURSIVE Place(_, _, _, _)
Place(st, idxs, elev, hashing) ==
  IF idxs = <<>> THEN st
  ELSE Place(PlaceOne(st, Head(idxs), elev, hashing), Tail(idxs), elev, hashing)

\* insert place i into order, kept ascending by pos
RECURSIVE InsertByPos(_, _, _)
InsertByPos(order, i, pos) ==
  IF order = <<>> THEN <<i>>
  ELSE IF pos[i] < pos[Head(order)] THEN <<i>> \o order
  ELSE <<Head(order)>> \o InsertByPos(Tail(order), i, pos)

\* mutant: the places left in arrival order, not sorted by position
OrderByPos_Arrival(n, pos) == Array([i \in 1..n |-> i])

\* pos.map((_, i) => i).sort((a, b) => pos[a] - pos[b])
RECURSIVE OrderByPos(_, _)
OrderByPos(n, pos) ==
  IF n = 0 THEN <<>> ELSE InsertByPos(OrderByPos(n - 1, pos), n, pos)

\* the error encodeSparseSignature throws for this configuration, "" when none
EncodeError(k, hashing) ==
  IF k <= 0 THEN "k must be positive"
  ELSE IF hashing.dim <= 0 THEN "hashing.dim must be positive"
  ELSE ""

\* the signature encodeSparseSignature returns (EncodeError(k, hashing) = "")
encodeSparseSignature(vec, k, hashing, clipQuantile) ==
  LET Signature(idx, vv) ==
        [idx |-> idx, val |-> vv,
         norm2 |-> IF \E i \in 1..Len(vv) : vv[i] = NaN THEN NaN
                   ELSE Sum(Array([i \in 1..Len(vv) |-> vv[i] * vv[i]]))]
      Ordered(st, order) ==
        Signature(Array([i \in 1..Len(order) |-> st.pos[order[i]]]),
                  Array([i \in 1..Len(order) |-> st.val[order[i]]]))
      Placed(st) ==
        IF st.pos = <<>> THEN EmptySignature
        ELSE Ordered(st, OrderByPos(Len(st.pos), st.pos))
      TopK(elev, ranked) ==
        Placed(Place([pos |-> <<>>, val |-> <<>>,
                      taken |-> [p \in 0..(hashing.dim - 1) |-> 0]],
                     IF k < Len(elev) THEN Slice(ranked, k) ELSE ranked,
                     elev, hashing))
      Ranked(elev) == TopK(elev, RankByElev(Len(elev), elev))
  IN  Ranked(Elevation(robustZ(vec), clipQuantile))

(***************************************************************************)
(* Sparse cosine and distance                                              *)
(***************************************************************************)
ONE == 1000

\* the two-cursor merge: the dot accumulated from cursors i, j (1-based) onwards
RECURSIVE MergeDot(_, _, _, _)
MergeDot(a, b, i, j) ==
  IF i > Len(a.idx) \/ j > Len(b.idx) THEN 0
  ELSE IF a.idx[i] = b.idx[j] THEN a.val[i] * b.val[j] + MergeDot(a, b, i + 1, j + 1)
  ELSE IF a.idx[i] < b.idx[j] THEN MergeDot(a, b, i + 1, j)
  ELSE MergeDot(a, b, i, j + 1)

\* mutant: both cursors advanced at positions that do not match
MergeStep_AdvanceBoth(a, b, st) ==
  IF a.idx[st.i + 1] = b.idx[st.j + 1]
  THEN [i |-> st.i + 1, j |-> st.j + 1,
        dot |-> st.dot + a.val[st.i + 1] * b.val[st.j + 1]]
  ELSE [i |-> st.i + 1, j |-> st.j + 1, dot |-> st.dot]

\* one iteration of the while loop of cosineSparse from the cursors and the dot
\* st = [i, j, dot] (i < ai.length and j < bi.length)
MergeStep(a, b, st) ==
  IF a.idx[st.i + 1] = b.idx[st.j + 1]
  THEN [i |-> st.i + 1, j |-> st.j + 1,
        dot |-> st.dot + a.val[st.i + 1] * b.val[st.j + 1]]
  ELSE IF a.idx[st.i + 1] < b.idx[st.j + 1]
  THEN [i |-> st.i + 1, j |-> st.j, dot |-> st.dot]
  ELSE [i |-> st.i, j |-> st.j + 1, dot |-> st.dot]

\* mutant: the dot normalised by the first signature's norm alone
cosineSparse_ByFirstNorm(a, b) ==
  LET dot == MergeDot(a, b, 1, 1)
  IN  IF a.norm2 = 0 \/ b.norm2 = 0 THEN 0
      ELSE (dot * ONE) \div a.norm2

\* dot / ((a.norm + eps) * (b.norm + eps)) in units of 1/ONE, the product of the
\* norms taken as sqrt(norm2 * norm2) to 1/ONE; with an empty signature the dot
\* is 0 over the positive denominator eps * (norm + eps)
cosineSparse(a, b) ==
  LET dot == MergeDot(a, b, 1, 1)
  IN  IF a.norm2 = 0 \/ b.norm2 = 0 THEN 0
      ELSE (dot * ONE * ONE) \div Sqrt(a.norm2 * b.norm2 * ONE * ONE)

distanceSparse(a, b) == ONE - cosineSparse(a, b)

\* 1 / norm in units of 1/ONE for a signature whose values are numerators over
\* 1.4826 * m4 / 2; with m4 = 0 the scale is of order eps and so is 1 / norm
InverseNorm(sig, m4) ==
  IF sig.norm2 = 0 THEN 0
  ELSE (14826 * m4 * ONE) \div (20 * Sqrt(sig.norm2 * ONE * ONE))

\* the coefficient of eps in dot / ((a.norm + eps) * (b.norm + eps)), which is
\* -cosine * (1 / a.norm + 1 / b.norm), in units of 1/ONE
cosineSparseEps(a, b, ma, mb) ==
  -((cosineSparse(a, b) * (InverseNorm(a, ma) + InverseNorm(b, mb))) \div ONE)

(***************************************************************************)
(* Conformal quantile                                                      *)
(***************************************************************************)
\* mutant: the ends of the interval accepted, alpha in [0,1]
QuantileError_Closed(scores, a) ==
  IF ~(a.num >= 0 /\ a.num <= a.den) THEN "alpha must be in (0,1)"
  ELSE IF Len(scores) = 0 THEN "need calibration scores"
  ELSE ""

\* the error conformalQuantile throws, "" when none
QuantileError(scores, a) ==
  IF ~(a.num > 0 /\ a.num < a.den) THEN "alpha must be in (0,1)"
  ELSE IF Len(scores) = 0 THEN "need calibration scores"
  ELSE ""

\* mutant: the rank taken with Math.floor instead of Math.ceil
conformalQuantile_Floor(scores, a) ==
  LET n == Len(scores)
      rank == Max2(0, Min2(n - 1, (((n + 1) * (a.den - a.num)) \div a.den) - 1))
      arr == SortAsc(scores)
  IN  arr[rank + 1]

\* the value conformalQuantile returns (QuantileError(scores, a) = "");
\* (n + 1) * (1 - alpha) = (n + 1) * (den - num) / den
conformalQuantile(scores, a) ==
  LET n == Len(scores)
      rank == Max2(0, Min2(n - 1, CeilDiv((n + 1) * (a.den - a.num), a.den) - 1))
      arr == SortAsc(scores)
  IN  arr[rank + 1]

(***************************************************************************)
(* USADetector                                                             *)
(***************************************************************************)
VARIABLES
  hashing,        \* this.hashing: [dim, useDoubleHash] (the salts are the defaults)
  k,              \* this.k
  alpha,          \* this.alpha
  kNN,            \* this.kNN
  clip,           \* this.clip
  calSigs,        \* this.calSigs
  calScores,      \* this.calScores
  thr,            \* this.thr: <<>> while undefined, else <<threshold>>
  ret,            \* outcome of the last call: [op, arg, entry, error, value],
                  \* entry = the pool size the call found
  everCalibrated, \* history: some calibrate call has returned
  qScores, qAlpha, qRank, qExceed, qOut,  \* quantile harness (see SpecQuantile)
  eVec, eK, eHashing, eClip,  \* encoder harness (see SpecEncode): the arguments,
  eOut,                       \* the outcome of the last encodeSparseSignature call,
  eFirst,                     \* history: <<signature>> of the first call on eVec,
  eCalls,                     \* history: the calls made, "vec" or "other"
  scales, knn_k, hist,        \* MultiScaleAnomaly: this.scales (as the key set of
                              \* this.hist), this.knn_k, this.hist[s].buf
  fed,                        \* history: the mappings pushed so far, in call order
  trace,                      \* history: the combined scores returned so far
  tRet,                       \* outcome of the last update_and_score call
  cA, cB, cOut                \* similarity harness (see SpecCosine)

detVars == <<hashing, k, alpha, kNN, clip, calSigs, calScores, thr, ret, everCalibrated>>

qVars == <<qScores, qAlpha, qRank, qExceed, qOut>>

encVars == <<eVec, eK, eHashing, eClip, eOut, eFirst, eCalls>>

trkVars == <<scales, knn_k, hist, fed, trace, tRet>>

cosVars == <<cA, cB, cOut>>

\* everything but the detector
notDetVars == <<qVars, encVars, trkVars, cosVars>>

vars == <<detVars, qVars, encVars, trkVars, cosVars>>

Undefined == <<>>

\* bounds of the explored calls
MaxCal == 2

MaxPool == 3

\* input vectors handed to the detector
Vectors == { <<0, 0, 0, 1>>, <<0, 1, 2, 3>>, <<0, 0, 0, 0>> }

\* calibration collections: every sequence of at most MaxCal vectors
Samples == UNION { [1..n -> Vectors] : n \in 0..MaxCal }

\* constructor arguments explored: valid ones and each configuration error
BaseConfig ==
  [hashing |-> [dim |-> 4, useDoubleHash |-> TRUE], k |-> 2,
   alpha |-> [num |-> 1, den |-> 2], kNN |-> 1, clip |-> [num |-> 1, den |-> 1]]

Configs ==
       { BaseConfig,
         [BaseConfig EXCEPT !.alpha = [num |-> 1, den |-> 10], !.kNN = 2,
                            !.clip = [num |-> 1, den |-> 2]],
         [BaseConfig EXCEPT !.alpha = [num |-> 9, den |-> 10]],
         [BaseConfig EXCEPT !.k = 0],
         [BaseConfig EXCEPT !.hashing.dim = 0],
         [BaseConfig EXCEPT !.alpha = [num |-> 0, den |-> 10]],
         [BaseConfig EXCEPT !.alpha = [num |-> 10, den |-> 10]] }

\* a thrown error / a returned value
Throw(op, arg, error) ==
  [op |-> op, arg |-> arg, entry |-> Len(calSigs), error |-> error, value |-> <<>>]

Return(op, arg, value) ==
  [op |-> op, arg |-> arg, entry |-> Len(calSigs), error |-> "", value |-> <<value>>]

\* constructor
DetectorInit ==
  /\ \E c \in Configs :
       /\ hashing = c.hashing
       /\ k = c.k
       /\ alpha = c.alpha
       /\ kNN = c.kNN
       /\ clip = c.clip
  /\ calSigs = <<>>
  /\ calScores = <<>>
  /\ thr = Undefined
  /\ ret = Return("new", <<>>, "detector")
  /\ everCalibrated = FALSE

\* encode(x): the value this.encode returns (EncodeError(k, hashing) = "")
encode(x) == encodeSparseSignature(x, k, hashing, clip)

\* dists.sort(); kEff = min(kNN, dists.length); mean of the kEff smallest
KnnMean(dists, kNearest) ==
  LET Mean(sorted, kEff) == Sum(Slice(sorted, kEff)) \div kEff
  IN  Mean(SortAsc(dists), Min2(kNearest, Len(dists)))

\* the distances from sx to every member of pool, in pool order
Distances(sx, pool) == Array([j \in 1..Len(pool) |-> distanceSparse(sx, pool[j])])

\* mutant: the loop over j without its "if (i === j) continue"
CalibrationScores_SelfIncluded(sigs, kNearest) ==
  Array([i \in 1..Len(sigs) |->
    KnnMean(Array([j \in 1..Len(sigs) |-> distanceSparse(sigs[i], sigs[j])]), kNearest)])

\* calibrate's leave-one-out scores: member i against every j # i
CalibrationScores(sigs, kNearest) ==
  LET Score(dists) == IF Len(dists) = 0 THEN 0 ELSE KnnMean(dists, kNearest)
  IN  Array([i \in 1..Len(sigs) |->
        Score(Array([j \in 1..(Len(sigs) - 1) |->
                distanceSparse(sigs[i], sigs[IF j < i THEN j ELSE j + 1])]))])

\* mutant: the pool is not emptied before the samples are pushed
EncodedPool_Kept(old, S) == old \o Array([i \in 1..Len(S) |-> encode(S[i])])

\* calibrate: this.calSigs = []; for (v of calibration) this.calSigs.push(encode(v))
EncodedPool(old, S) == Array([i \in 1..Len(S) |-> encode(S[i])])

Calibrate(S) ==
  LET Finish(sigs, scores, t) ==
        /\ calSigs' = sigs
        /\ calScores' = scores
        /\ thr' = <<t>>
        /\ everCalibrated' = TRUE
        /\ ret' = Return("calibrate", S, t)
      Scored(sigs, scores) ==
        IF QuantileError(scores, alpha) # ""
        THEN \* conformalQuantile throws, after pool and scores were rebuilt
             /\ calSigs' = sigs
             /\ calScores' = scores
             /\ UNCHANGED <<thr, everCalibrated>>
             /\ ret' = Throw("calibrate", S, QuantileError(scores, alpha))
        ELSE Finish(sigs, scores, conformalQuantile(scores, alpha))
      Encoded(sigs) ==
        IF Len(sigs) = 0
        THEN /\ calSigs' = <<>>
             /\ UNCHANGED <<calScores, thr, everCalibrated>>
             /\ ret' = Throw("calibrate", S, "need calibration vectors")
        ELSE Scored(sigs, CalibrationScores(sigs, kNN))
  IN
  /\ UNCHANGED <<hashing, k, alpha, kNN, clip, notDetVars>>
  /\ IF Len(S) > 0 /\ EncodeError(k, hashing) # ""
     THEN \* the first encode throws, after the pool was emptied
          /\ calSigs' = <<>>
          /\ UNCHANGED <<calScores, thr, everCalibrated>>
          /\ ret' = Throw("calibrate", S, EncodeError(k, hashing))
     ELSE Encoded(EncodedPool(calSigs, S))

\* what nonconformity(x) throws in the current state, "" when it returns
NonconformityError(x) ==
  IF Len(calSigs) = 0 THEN "not calibrated" ELSE EncodeError(k, hashing)

\* what nonconformity(x) returns in the current state
NonconformityValue(x) == KnnMean(Distances(encode(x), calSigs), kNN)

\* what threshold() throws in the current state, "" when it returns
ThresholdError == IF thr = Undefined THEN "threshold not set" ELSE ""

\* what predict(x) throws: nonconformity runs first, then threshold
PredictError(x) ==
  IF NonconformityError(x) # "" THEN NonconformityError(x) ELSE ThresholdError

\* mutant: no point reported anomalous, so that updateIfNormal absorbs every point
IsAnomaly_Never(s, t) == FALSE

\* mutant: a score equal to the threshold reported as anomalous
IsAnomaly_NonStrict(s, t) == s >= t

\* isAnomaly: s > t
IsAnomaly(s, t) == s > t

\* what predict(x) returns in the current state
PredictValue(x) ==
  LET Verdict(s, t) == [isAnomaly |-> IsAnomaly(s, t), score |-> s, threshold |-> t]
  IN  Verdict(NonconformityValue(x), thr[1])

Encode(x) ==
  /\ UNCHANGED <<hashing, k, alpha, kNN, clip, calSigs, calScores, thr, everCalibrated, notDetVars>>
  /\ ret' = IF EncodeError(k, hashing) # ""
            THEN Throw("encode", <<x>>, EncodeError(k, hashing))
            ELSE Return("encode", <<x>>, encode(x))

\* mutant: a failing nonconformity call forgets the threshold and the scores
Nonconformity_Forgetting(x) ==
  /\ UNCHANGED <<hashing, k, alpha, kNN, clip, calSigs, everCalibrated, notDetVars>>
  /\ calScores' = IF NonconformityError(x) # "" THEN <<>> ELSE calScores
  /\ thr' = IF NonconformityError(x) # "" THEN Undefined ELSE thr
  /\ ret' = IF NonconformityError(x) # ""
            THEN Throw("nonconformity", <<x>>, NonconformityError(x))
            ELSE Return("nonconformity", <<x>>, NonconformityValue(x))

Nonconformity(x) ==
  /\ UNCHANGED <<hashing, k, alpha, kNN, clip, calSigs, calScores, thr, everCalibrated, notDetVars>>
  /\ ret' = IF NonconformityError(x) # ""
            THEN Throw("nonconformity", <<x>>, NonconformityError(x))
            ELSE Return("nonconformity", <<x>>, NonconformityValue(x))

Threshold ==
  /\ UNCHANGED <<hashing, k, alpha, kNN, clip, calSigs, calScores, thr, everCalibrated, notDetVars>>
  /\ ret' = IF ThresholdError # ""
            THEN Throw("threshold", <<>>, ThresholdError)
            ELSE Return("threshold", <<>>, thr[1])

Predict(x) ==
  /\ UNCHANGED <<hashing, k, alpha, kNN, clip, calSigs, calScores, thr, everCalibrated, notDetVars>>
  /\ ret' = IF PredictError(x) # ""
            THEN Throw("predict", <<x>>, PredictError(x))
            ELSE Return("predict", <<x>>, PredictValue(x))

\* mutant: sx scored against the pool that already holds it
NewScore_SelfIncluded(sx, pushed) ==
  LET Score(dists) == IF Len(dists) > 0 THEN KnnMean(dists, kNN) ELSE 0
  IN  Score(Distances(sx, pushed))

\* updateIfNormal: the score of sx against this.calSigs.slice(0, -1), sx just pushed
NewScore(sx, pushed) ==
  LET Score(dists) == IF Len(dists) > 0 THEN KnnMean(dists, kNN) ELSE 0
  IN  Score(Distances(sx, SubSeq(pushed, 1, Len(pushed) - 1)))

\* mutant: the threshold is not recomputed after the push
UpdatedThreshold_Stale(old, scores) == old

\* updateIfNormal: this.thr = conformalQuantile(this.calScores, this.alpha)
UpdatedThreshold(old, scores) == <<conformalQuantile(scores, alpha)>>

UpdateIfNormal(x) ==
  /\ Len(calSigs) < MaxPool
  /\ UNCHANGED <<hashing, k, alpha, kNN, clip, everCalibrated, notDetVars>>
  /\ IF PredictError(x) # ""
     THEN /\ UNCHANGED <<calSigs, calScores, thr>>
          /\ ret' = Throw("updateIfNormal", <<x>>, PredictError(x))
     ELSE IF PredictValue(x).isAnomaly
     THEN /\ UNCHANGED <<calSigs, calScores, thr>>
          /\ ret' = Return("updateIfNormal", <<x>>, FALSE)
     ELSE LET Rescored(pushed, scores) ==
                /\ calSigs' = pushed
                /\ calScores' = scores
                /\ thr' = UpdatedThreshold(thr, scores)
                /\ ret' = Return("updateIfNormal", <<x>>, TRUE)
              Pushed(sx, pushed) ==
                Rescored(pushed, Append(calScores, NewScore(sx, pushed)))
              Absorb(sx) == Pushed(sx, Append(calSigs, sx))
          IN  Absorb(encode(x))

QuantileIdle ==
  /\ qScores = <<>>
  /\ qAlpha = [num |-> 1, den |-> 2]
  /\ qRank = 0
  /\ qExceed = 0
  /\ qOut = Return("idle", <<>>, 0)

EncoderIdle ==
  /\ eVec = <<>>
  /\ eK = 1
  /\ eHashing = [dim |-> 1, useDoubleHash |-> TRUE]
  /\ eClip = [num |-> 1, den |-> 1]
  /\ eOut = [op |-> "idle", arg |-> <<>>, error |-> "", value |-> <<>>]
  /\ eFirst = <<>>
  /\ eCalls = <<>>

TrackerIdle ==
  /\ scales = {}
  /\ knn_k = 1
  /\ hist = <<>>
  /\ fed = <<>>
  /\ trace = <<>>
  /\ tRet = [op |-> "idle", arg |-> <<>>, per |-> <<>>, combined |-> 0]

CosineIdle ==
  /\ cA = <<>>
  /\ cB = <<>>
  /\ cOut = [op |-> "idle", ab |-> 0, ba |-> 0]

Init == DetectorInit /\ QuantileIdle /\ EncoderIdle /\ TrackerIdle /\ CosineIdle

Next ==
  \/ \E S \in Samples : Calibrate(S)
  \/ \E x \in Vectors : Encode(x)
  \/ \E x \in Vectors : Nonconformity(x)
  \/ Threshold
  \/ \E x \in Vectors : Predict(x)
  \/ \E x \in Vectors : UpdateIfNormal(x)

Spec == Init /\ [][Next]_vars

(***************************************************************************)
(* Claims about one USADetector (checked under Spec)                       *)
(***************************************************************************)
AlphaInUnit(a) == a.num > 0 /\ a.num < a.den

NotCalibratedErrors == {"not calibrated", "threshold not set"}

\* C3: in every reachable state, also after calls that failed, the signature
\* list and the score list of the pool have the same length.
C3_PoolAligned == Len(calSigs) = Len(calScores)

\* C4: the threshold is undefined while no calibrate call has returned, and is
\* otherwise the conformal quantile of the score list currently stored.
C4_ThresholdCurrent ==
  /\ ~everCalibrated => thr = Undefined
  /\ everCalibrated =>
       /\ Len(calScores) > 0
       /\ thr = <<conformalQuantile(calScores, alpha)>>

\* an absorbed point has changed the threshold calibrate had returned
C4_Witness ==
  /\ everCalibrated
  /\ ret.op = "updateIfNormal"
  /\ ret.value = <<TRUE>>
  /\ \E i \in 1..Len(calScores) : <<calScores[i]>> # thr
  /\ thr = <<calScores[Len(calScores)]>>

\* C5: while no calibrate call has succeeded, predict, nonconformity and
\* threshold each fail with a not-calibrated error.
C5_FailsUncalibrated ==
  ~everCalibrated =>
    /\ ThresholdError \in NotCalibratedErrors
    /\ \A x \in Vectors :
         /\ NonconformityError(x) \in NotCalibratedErrors
         /\ PredictError(x) \in NotCalibratedErrors

\* C6: once a calibrate call has succeeded, predict, nonconformity and
\* threshold return values after any later calls, failed ones included.
C6_StaysCalibrated ==
  everCalibrated =>
    /\ ThresholdError = ""
    /\ \A x \in Vectors : NonconformityError(x) = "" /\ PredictError(x) = ""

\* C7: after a successful calibrate(S) the pool holds exactly the encodings of
\* the samples of S in order, and scores and threshold are those of S alone,
\* whatever the pool held before.
C7_CalibrateResets ==
  (ret.op = "calibrate" /\ ret.error = "") =>
    /\ Len(calSigs) = Len(ret.arg)
    /\ \A i \in 1..Len(ret.arg) : calSigs[i] = encode(ret.arg[i])
    /\ calScores = CalibrationScores(Array([i \in 1..Len(ret.arg) |-> encode(ret.arg[i])]), kNN)
    /\ thr = <<conformalQuantile(calScores, alpha)>>
    /\ ret.value = thr

\* a calibrate succeeded on a pool that held more signatures than S has samples
C7_Witness ==
  /\ ret.op = "calibrate"
  /\ ret.error = ""
  /\ ret.entry > Len(ret.arg)

\* C8: a configuration error is raised by the call that meets it and nothing is
\* returned: encode when k <= 0 or dim <= 0, calibrate when the collection is
\* empty, when alpha is outside (0,1), or when encoding a sample raises.
C8_ConfigurationErrors ==
  /\ (ret.op = "encode" /\ (k <= 0 \/ hashing.dim <= 0)) =>
       (ret.error # "" /\ ret.value = <<>>)
  /\ (ret.op = "calibrate"
        /\ (Len(ret.arg) = 0 \/ ~AlphaInUnit(alpha) \/ k <= 0 \/ hashing.dim <= 0)) =>
       (ret.error # "" /\ ret.value = <<>>)

\* calibrate on a non-empty collection raised for alpha outside (0,1)
C8_Witness ==
  /\ ret.op = "calibrate"
  /\ Len(ret.arg) > 0
  /\ ~AlphaInUnit(alpha)
  /\ ret.error = "alpha must be in (0,1)"

\* sum of dists over the index set J
RECURSIVE SumOver(_, _)
SumOver(dists, J) ==
  IF J = {} THEN 0
  ELSE LET j == CHOOSE j \in J : TRUE IN dists[j] + SumOver(dists, J \ {j})

\* m is the mean of the min(kNearest, Len(dists)) smallest entries of dists
IsKnnMean(dists, kNearest, m) ==
  \E J \in SUBSET (1..Len(dists)) :
    /\ Cardinality(J) = (IF kNearest < Len(dists) THEN kNearest ELSE Len(dists))
    /\ \A i \in J : \A j \in (1..Len(dists)) \ J : dists[i] <= dists[j]
    /\ m = SumOver(dists, J) \div Cardinality(J)

\* C9: on a calibrated detector predict(x) returns score = the mean of the
\* min(kNN, pool size) smallest distances from x's signature to the pool,
\* threshold = the current threshold, isAnomaly = (score > threshold), strictly.
C9_Predict ==
  (ret.op = "predict" /\ ret.error = "") =>
    /\ IsKnnMean(Array([j \in 1..Len(calSigs) |->
                   ONE - cosineSparse(encode(ret.arg[1]), calSigs[j])]),
                 kNN, ret.value[1].score)
    /\ <<ret.value[1].threshold>> = thr
    /\ ret.value[1].isAnomaly = (ret.value[1].score > ret.value[1].threshold)

\* predict returned a score equal to the threshold, reported as not anomalous
C9_Witness ==
  /\ ret.op = "predict"
  /\ ret.error = ""
  /\ ret.value[1].score = ret.value[1].threshold
  /\ ret.value[1].isAnomaly = FALSE

\* C10: updateIfNormal(x) returns true exactly when predict(x).isAnomaly is false
\* before the call; then pool and scores each grow by one entry at the end, the
\* new score is nonconformity(x) against the pool before insertion and the
\* threshold is recomputed from the extended scores; when it returns false the
\* pool, the scores and the threshold are unchanged.
C10_UpdateStep ==
  (ret'.op = "updateIfNormal" /\ ret'.error = "") =>
    /\ PredictError(ret'.arg[1]) = ""
    /\ ret'.value[1] = ~PredictValue(ret'.arg[1]).isAnomaly
    /\ ret'.value[1] =>
         /\ calSigs' = Append(calSigs, encode(ret'.arg[1]))
         /\ calScores' = Append(calScores, NonconformityValue(ret'.arg[1]))
         /\ thr' = <<conformalQuantile(calScores', alpha)>>
    /\ ~ret'.value[1] => UNCHANGED <<calSigs, calScores, thr>>

C10_UpdateIfNormal == [][C10_UpdateStep]_vars

\* a point was absorbed whose score is neither 0 nor the threshold it met
C10_Witness ==
  /\ ret.op = "updateIfNormal"
  /\ ret.value = <<TRUE>>
  /\ calScores[Len(calScores)] > 0

(***************************************************************************)
(* conformalQuantile applied to exchangeable scores: qScores holds n + 1   *)
(* scores; each step holds out the next one as the test score and calls    *)
(* conformalQuantile on the other n.                                       *)
(***************************************************************************)
MaxScores == 3

MaxScore == 3

\* alpha arguments explored: inside (0,1), and on either end outside it
QuantileAlphas ==
  { [num |-> 1, den |-> 10], [num |-> 1, den |-> 2], [num |-> 9, den |-> 10],
    [num |-> 0, den |-> 10], [num |-> 10, den |-> 10] }

\* the threshold-formula case: 100 distinct scores, so that n = 99 are left
FormulaScores == Array([i \in 1..100 |-> ((i * 37) % 101)])

\* s without its r-th element
Without(s, r) == SubSeq(s, 1, r - 1) \o SubSeq(s, r + 1, Len(s))

DetectorIdle ==
  /\ hashing = BaseConfig.hashing
  /\ k = BaseConfig.k
  /\ alpha = BaseConfig.alpha
  /\ kNN = BaseConfig.kNN
  /\ clip = BaseConfig.clip
  /\ calSigs = <<>>
  /\ calScores = <<>>
  /\ thr = Undefined
  /\ ret = Return("new", <<>>, "detector")
  /\ everCalibrated = FALSE

QuantileInit ==
  /\ \/ /\ qScores \in UNION { [1..n -> 1..MaxScore] : n \in 1..MaxScores }
        /\ qAlpha \in QuantileAlphas
     \/ /\ qScores = FormulaScores
        /\ qAlpha = [num |-> 1, den |-> 10]
  /\ qRank = 0
  /\ qExceed = 0
  /\ qOut = Return("idle", <<>>, 0)

\* hold out score number qRank + 1 and call conformalQuantile(others, qAlpha)
HoldOut ==
  LET Called(test, others) ==
        IF QuantileError(others, qAlpha) # ""
        THEN /\ qOut' = Throw("conformalQuantile", <<others>>, QuantileError(others, qAlpha))
             /\ UNCHANGED qExceed
        ELSE LET Returned(t) ==
                   /\ qOut' = Return("conformalQuantile", <<others>>, t)
                   /\ qExceed' = qExceed + (IF test > t THEN 1 ELSE 0)
             IN  Returned(conformalQuantile(others, qAlpha))
  IN
  /\ qRank < Len(qScores)
  /\ qRank' = qRank + 1
  /\ Called(qScores[qRank + 1], Without(qScores, qRank + 1))
  /\ UNCHANGED <<qScores, qAlpha, detVars, encVars, trkVars, cosVars>>

InitQuantile == DetectorIdle /\ QuantileInit /\ EncoderIdle /\ TrackerIdle /\ CosineIdle

NextQuantile == HoldOut

SpecQuantile == InitQuantile /\ [][NextQuantile]_vars

(***************************************************************************)
(* Claims about conformalQuantile (checked under SpecQuantile)             *)
(***************************************************************************)
Distinct(s) == \A i, j \in 1..Len(s) : i # j => s[i] # s[j]

\* C1: conformal coverage as counting: with n + 1 distinct scores (n >= 1) and
\* alpha in (0,1), once every score has been held out as the test score, the
\* fraction of ranks at which the test score exceeded the threshold computed
\* from the other n scores is at most alpha: qExceed / (n + 1) <= alpha.
C1_ConformalCoverage ==
  (qRank = Len(qScores) /\ Len(qScores) >= 2 /\ Distinct(qScores) /\ AlphaInUnit(qAlpha))
    => qExceed * qAlpha.den <= qAlpha.num * Len(qScores)

\* the same count where the index is not clamped: ceil((n+1)(1-alpha)) <= n
C1_CoverageUnclamped ==
  (qRank = Len(qScores) /\ Len(qScores) >= 2 /\ Distinct(qScores) /\ AlphaInUnit(qAlpha)
     /\ Len(qScores) * (qAlpha.den - qAlpha.num) <= (Len(qScores) - 1) * qAlpha.den)
    => qExceed * qAlpha.den <= qAlpha.num * Len(qScores)

\* the 0-based index the claim names: clamp(ceil((n+1)(1-alpha)) - 1, 0, n-1), the
\* ceiling taken as the least integer c with c * den >= (n+1) * (den - num)
ClaimedIndex(n, a) ==
  LET c == CHOOSE c \in 0..(n + 1) :
             /\ c * a.den >= (n + 1) * (a.den - a.num)
             /\ (c - 1) * a.den < (n + 1) * (a.den - a.num)
  IN  IF c - 1 < 0 THEN 0 ELSE IF c - 1 > n - 1 THEN n - 1 ELSE c - 1

\* t is the element at 0-based index r of the ascending sort of scores
IsOrderStatistic(scores, r, t) ==
  /\ \E i \in 1..Len(scores) : scores[i] = t
  /\ Cardinality({i \in 1..Len(scores) : scores[i] < t}) <= r
  /\ Cardinality({i \in 1..Len(scores) : scores[i] <= t}) >= r + 1

\* C2: for every non-empty score list of length n and every alpha in (0,1),
\* conformalQuantile returns the element at 0-based index
\* clamp(ceil((n+1)(1-alpha)) - 1, 0, n-1) of the ascending sort; for n = 99 and
\* alpha = 0.1 that is index 89: exactly 89 of the distinct scores lie below it.
C2_ThresholdFormula ==
  (qOut.op = "conformalQuantile" /\ Len(qOut.arg[1]) > 0 /\ AlphaInUnit(qAlpha)) =>
    /\ qOut.error = ""
    /\ IsOrderStatistic(qOut.arg[1], ClaimedIndex(Len(qOut.arg[1]), qAlpha), qOut.value[1])
    /\ (Len(qOut.arg[1]) = 99 /\ qAlpha = [num |-> 1, den |-> 10]) =>
         Cardinality({i \in 1..99 : qOut.arg[1][i] < qOut.value[1]}) = 89

\* conformalQuantile has returned the threshold of n = 99 scores at alpha = 0.1
C2_Witness ==
  /\ qOut.op = "conformalQuantile"
  /\ qOut.error = ""
  /\ Len(qOut.arg[1]) = 99
  /\ qAlpha = [num |-> 1, den |-> 10]

(***************************************************************************)
(* encodeSparseSignature as a function of its arguments: eVec and the      *)
(* options are drawn at the start; each step encodes eVec, or another      *)
(* vector in between, with the same options.                               *)
(***************************************************************************)
MaxLen == 4

MaxK == 3

MaxEncodes == 3

\* the entries of the vectors explored
Entries == {0, 1, 3}

NonFiniteVectors == { <<Infinity, 0, 0, 1>>, <<0, 3, Infinity>>, <<1, 1, 1, Infinity>> }

\* Scenario A's vector
ZeroVector == Array([i \in 1..128 |-> 0])

\* the vector encoded in between
OtherVector == <<3, 0, 1>>

EncVectors == UNION { [1..n -> Entries] : n \in 0..MaxLen } \cup NonFiniteVectors

Option(kk, dim, double, clipQ) ==
  [k |-> kk, hashing |-> [dim |-> dim, useDoubleHash |-> double], clip |-> clipQ]

NoClip == [num |-> 1, den |-> 1]

HalfClip == [num |-> 1, den |-> 2]

\* options explored: valid ones, then k = 0 and dim = 0
EncConfigs ==
  UNION { { Option(kk, 4, TRUE, NoClip), Option(kk, 2, TRUE, NoClip),
            Option(kk, 1, TRUE, NoClip), Option(kk, 4, FALSE, NoClip),
            Option(kk, 4, TRUE, HalfClip) } : kk \in 1..MaxK }
    \cup { Option(0, 4, TRUE, NoClip), Option(2, 0, TRUE, NoClip) }

EncoderInit ==
  /\ \/ /\ eVec \in EncVectors
        /\ \E c \in EncConfigs : eK = c.k /\ eHashing = c.hashing /\ eClip = c.clip
     \/ /\ eVec = ZeroVector
        /\ eK = 2
        /\ eHashing = [dim |-> 4, useDoubleHash |-> TRUE]
        /\ eClip \in {NoClip, HalfClip}
  /\ eOut = [op |-> "idle", arg |-> <<>>, error |-> "", value |-> <<>>]
  /\ eFirst = <<>>
  /\ eCalls = <<>>

\* mutant: the taken map kept across calls, so that a feature hashed to a
\* position the previous signature holds is dropped
Encoded_Leaking(vec, kk, h, clipQ) ==
  LET Held(prev) == {prev[i] : i \in 1..Len(prev)}
      Free(fresh, held) ==
        SelectSeq(Array([i \in 1..Len(fresh.idx) |-> i]), LAMBDA i : fresh.idx[i] \notin held)
      Left(fresh, free) ==
        [idx |-> Array([j \in 1..Len(free) |-> fresh.idx[free[j]]]),
         val |-> Array([j \in 1..Len(free) |-> fresh.val[free[j]]]),
         norm2 |-> Sum(Array([j \in 1..Len(free) |-> fresh.val[free[j]] * fresh.val[free[j]]]))]
      Leak(fresh, held) == Left(fresh, Free(fresh, held))
  IN  Leak(encodeSparseSignature(vec, kk, h, clipQ),
           IF eOut.value = <<>> THEN {} ELSE Held(eOut.value[1].idx))

\* the call encodeSparseSignature(vec, { k, hashing, clipQuantile })
Encoded(vec, kk, h, clipQ) == encodeSparseSignature(vec, kk, h, clipQ)

EncodeOutcome(vec) ==
  IF EncodeError(eK, eHashing) # ""
  THEN [op |-> "encodeSparseSignature", arg |-> <<vec>>,
        error |-> EncodeError(eK, eHashing), value |-> <<>>]
  ELSE [op |-> "encodeSparseSignature", arg |-> <<vec>>,
        error |-> "", value |-> <<Encoded(vec, eK, eHashing, eClip)>>]

EncodeVec ==
  /\ Len(eCalls) < MaxEncodes
  /\ eOut' = EncodeOutcome(eVec)
  /\ eFirst' = IF eFirst = <<>> THEN <<eOut'>> ELSE eFirst
  /\ eCalls' = Append(eCalls, "vec")
  /\ UNCHANGED <<eVec, eK, eHashing, eClip, detVars, qVars, trkVars, cosVars>>

EncodeOther ==
  /\ Len(eCalls) < MaxEncodes
  /\ eOut' = EncodeOutcome(OtherVector)
  /\ eCalls' = Append(eCalls, "other")
  /\ UNCHANGED <<eVec, eK, eHashing, eClip, eFirst, detVars, qVars, trkVars, cosVars>>

InitEncode == DetectorIdle /\ QuantileIdle /\ EncoderInit /\ TrackerIdle /\ CosineIdle

NextEncode == EncodeVec \/ EncodeOther

SpecEncode == InitEncode /\ [][NextEncode]_vars

(***************************************************************************)
(* Claims about encodeSparseSignature (checked under SpecEncode)           *)
(***************************************************************************)
EncodeReturned == eOut.op = "encodeSparseSignature" /\ eOut.error = ""

\* C15: for every vector and every valid configuration (k >= 1, dim >= 1) the
\* call returns a signature with at most k positions, each p with 0 <= p < dim.
C15_SparsityBound ==
  /\ (eOut.op = "encodeSparseSignature" /\ eK >= 1 /\ eHashing.dim >= 1) => eOut.error = ""
  /\ EncodeReturned =>
       /\ Len(eOut.value[1].idx) <= eK
       /\ \A i \in 1..Len(eOut.value[1].idx) :
            eOut.value[1].idx[i] >= 0 /\ eOut.value[1].idx[i] < eHashing.dim

\* a vector longer than k was encoded into exactly k positions
C15_Witness ==
  /\ EncodeReturned
  /\ Len(eOut.arg[1]) > eK
  /\ eK > 1
  /\ Len(eOut.value[1].idx) = eK

\* position p is one of the (at most two) hashed positions of feature f
HoldsPosition(f, p) ==
  \/ blake2bIndex(f, eHashing.dim, "salt1") = p
  \/ eHashing.useDoubleHash /\ blake2bIndex(f, eHashing.dim, "salt2") = p

\* C16: every returned signature has strictly ascending positions without
\* duplicate, as many values as positions, each value the elevation of a feature
\* hashed to the position it is aligned with, and norm = the L2 norm of its values.
C16_WellFormed ==
  EncodeReturned =>
    LET sig == eOut.value[1]
        elev == Elevation(robustZ(eOut.arg[1]), eClip)
    IN  /\ \A i \in 1..(Len(sig.idx) - 1) : sig.idx[i] < sig.idx[i + 1]
        /\ Len(sig.val) = Len(sig.idx)
        /\ \A i \in 1..Len(sig.idx) :
             \E f \in 0..(Len(elev) - 1) :
               elev[f + 1] = sig.val[i] /\ HoldsPosition(f, sig.idx[i])
        /\ sig.norm2 = Sum(Array([i \in 1..Len(sig.val) |-> sig.val[i] * sig.val[i]]))

\* a signature of two positions whose arrival order was not the ascending one
C16_Witness ==
  /\ EncodeReturned
  /\ Len(eOut.value[1].idx) >= 2
  /\ Abs(eOut.value[1].val[1]) < Abs(eOut.value[1].val[2])

Sanitized(vec) == Array([i \in 1..Len(vec) |-> IF vec[i] = Infinity THEN 0 ELSE vec[i]])

HasNonFinite(vec) == \E i \in 1..Len(vec) : vec[i] = Infinity

\* C18: a vector with non-finite entries is encoded without error into the
\* signature of the vector with those entries replaced by 0 (compared here on
\* the positions alone).
C18_NonFiniteAsZero ==
  (eOut.op = "encodeSparseSignature" /\ HasNonFinite(eOut.arg[1])
     /\ EncodeError(eK, eHashing) = "") =>
    /\ eOut.error = ""
    /\ eOut.value[1].idx = encodeSparseSignature(Sanitized(eOut.arg[1]), eK, eHashing, eClip).idx

AllZero(vec) == \A i \in 1..Len(vec) : vec[i] = 0

\* C19: an all-zero vector of any length is encoded, without raising, into a
\* signature with 0 positions, 0 values, norm 0, hence sparsity 0 / dim = 0.
C19_AllZeroEmpty ==
  (eOut.op = "encodeSparseSignature" /\ AllZero(eOut.arg[1])
     /\ EncodeError(eK, eHashing) = "") =>
    /\ eOut.error = ""
    /\ eOut.value[1].idx = <<>>
    /\ eOut.value[1].val = <<>>
    /\ eOut.value[1].norm2 = 0
    /\ (Len(eOut.value[1].idx) * ONE) \div eHashing.dim = 0

\* the length-128 all-zero vector of Scenario A has been encoded
C19_Witness ==
  /\ EncodeReturned
  /\ Len(eOut.arg[1]) = 128
  /\ AllZero(eOut.arg[1])

(***************************************************************************)
(* MultiScaleAnomaly (rh-sparse.js).  A signature is [positions,           *)
(* elevations]; the mapping to_dict builds from it is a function from its  *)
(* positions to elevations.  Elevations are carried as integers (a common   *)
(* positive factor does not change a cosine), similarities and novelties   *)
(* in units of 1/ONE.                                                      *)
(***************************************************************************)
MaxCalls == 4

\* to_dict: d[positions[i]] = elevations[i] for i ascending, a later entry winning
to_dict(sig) ==
  LET Last(p) == CHOOSE i \in 1..Len(sig.positions) :
                   /\ sig.positions[i] = p
                   /\ \A j \in (i + 1)..Len(sig.positions) : sig.positions[j] # p
  IN  [p \in {sig.positions[i] : i \in 1..Len(sig.positions)} |-> sig.elevations[Last(p)]]

\* the sum of f over the keys K
RECURSIVE SumKeys(_, _)
SumKeys(f, K) ==
  IF K = {} THEN 0
  ELSE LET key == CHOOSE key \in K : TRUE IN f[key] + SumKeys(f, K \ {key})

\* _sparse_cosine: dot / (na * nb) over the union of the keys, 0.0 when a mapping is
\* empty or a norm is 0
sparse_cosine(a, b) ==
  LET At(d, key) == IF key \in DOMAIN d THEN d[key] ELSE 0
      keys == DOMAIN a \cup DOMAIN b
      dot == SumKeys([key \in keys |-> At(a, key) * At(b, key)], keys)
      na2 == SumKeys([key \in DOMAIN a |-> a[key] * a[key]], DOMAIN a)
      nb2 == SumKeys([key \in DOMAIN b |-> b[key] * b[key]], DOMAIN b)
  IN  IF DOMAIN a = {} \/ DOMAIN b = {} THEN 0
      ELSE IF na2 = 0 \/ nb2 = 0 THEN 0
      ELSE (dot * ONE * ONE) \div Sqrt(na2 * nb2 * ONE * ONE)

\* sort((a, b) => b - a)
SortDesc(s) ==
  LET Reversed(asc) == Array([i \in 1..Len(asc) |-> asc[Len(asc) + 1 - i]])
  IN  Reversed(SortAsc(s))

\* mutant: the k least similar entries averaged
topk_avg_Lowest(buf, q, kk) ==
  LET Mean(sims, kEff) == Sum(Slice(sims, kEff)) \div kEff
  IN  IF Len(buf) = 0 THEN 0
      ELSE Mean(SortAsc(Array([i \in 1..Len(buf) |-> sparse_cosine(q, buf[i])])),
                Max2(1, Min2(kk, Len(buf))))

\* mutant: the mean of every similarity of the ring, not of the k largest
topk_avg_WholeRing(buf, q, kk) ==
  LET Mean(sims, kEff) == Sum(Slice(sims, kEff)) \div kEff
  IN  IF Len(buf) = 0 THEN 0
      ELSE Mean(SortDesc(Array([i \in 1..Len(buf) |-> sparse_cosine(q, buf[i])])),
                Len(buf))

\* _topk_avg: the mean of the kEff = max(1, min(k, n)) largest similarities, 0.0 on
\* an empty ring
topk_avg(buf, q, kk) ==
  LET Mean(sims, kEff) == Sum(Slice(sims, kEff)) \div kEff
  IN  IF Len(buf) = 0 THEN 0
      ELSE Mean(SortDesc(Array([i \in 1..Len(buf) |-> sparse_cosine(q, buf[i])])),
                Max2(1, Min2(kk, Len(buf))))

\* mutant: the similarity reported in place of the novelty
Novelty_Similarity(avg) == avg

\* per[s] = 1.0 - avg_topk
Novelty(avg) == ONE - avg

\* mutant: on overflow the newest entry is removed (pop for shift)
PushRing_DropNewest(buf, cap, q) ==
  IF Len(buf) + 1 > cap THEN buf ELSE Append(buf, q)

\* ring.buf.push(q); if (ring.buf.length > ring.cap) ring.buf.shift()
PushRing(buf, cap, q) ==
  IF Len(buf) + 1 > cap THEN Tail(Append(buf, q)) ELSE Append(buf, q)

\* the second loop of update_and_score: q pushed onto every ring
PushAll(h, q) == [s \in DOMAIN h |-> PushRing(h[s], s, q)]

\* mutant: the rings are scored after q was pushed onto them
PerScale_AfterPush(h, q, kk) ==
  [s \in DOMAIN h |-> Novelty(topk_avg(PushRing(h[s], s, q), q, kk))]

\* the first loop of update_and_score: the novelty of q against every ring
PerScale(h, q, kk) == [s \in DOMAIN h |-> Novelty(topk_avg(h[s], q, kk))]

\* combined: the mean of the per-scale novelties, 0.0 without scales
Combined(per) ==
  IF DOMAIN per = {} THEN 0
  ELSE SumKeys(per, DOMAIN per) \div Cardinality(DOMAIN per)

\* signatures fed to the tracker: two that overlap, one that shares no position
\* with them, the empty one, and one of negative elevation (to_dict copies any
\* elevation it is given)
TrackerSigs ==
  { [positions |-> <<0, 1>>, elevations |-> <<2, 1>>],
    [positions |-> <<1, 2>>, elevations |-> <<1, 1>>],
    [positions |-> <<3>>, elevations |-> <<1>>],
    [positions |-> <<>>, elevations |-> <<>>],
    [positions |-> <<0>>, elevations |-> <<-1>>] }

\* constructor arguments explored, knn_k a neighbour count of at least 1; a
\* scale of capacity 0 and no scale at all are accepted by the constructor
TrackerConfigs ==
  { [scales |-> {1, 2}, knn_k |-> 1], [scales |-> {2, 3}, knn_k |-> 2],
    [scales |-> {3}, knn_k |-> 3], [scales |-> {0, 2}, knn_k |-> 1],
    [scales |-> {0}, knn_k |-> 1], [scales |-> {}, knn_k |-> 1],
    [scales |-> {1, 3}, knn_k |-> 1] }

TrackerInit ==
  /\ \E c \in TrackerConfigs : scales = c.scales /\ knn_k = c.knn_k
  /\ hist = [s \in scales |-> <<>>]
  /\ fed = <<>>
  /\ trace = <<>>
  /\ tRet = [op |-> "new", arg |-> <<>>, per |-> <<>>, combined |-> 0]

UpdateAndScore(sig) ==
  LET Scored(q, per) ==
        /\ hist' = PushAll(hist, q)
        /\ fed' = Append(fed, q)
        /\ trace' = Append(trace, Combined(per))
        /\ tRet' = [op |-> "update_and_score", arg |-> <<sig>>, per |-> per,
                    combined |-> Combined(per)]
      Called(q) == Scored(q, PerScale(hist, q, knn_k))
  IN
  /\ Len(fed) < MaxCalls
  /\ Called(to_dict(sig))
  /\ UNCHANGED <<scales, knn_k, detVars, qVars, encVars, cosVars>>

InitTracker == DetectorIdle /\ QuantileIdle /\ EncoderIdle /\ TrackerInit /\ CosineIdle

NextTracker == \E sig \in TrackerSigs : UpdateAndScore(sig)

SpecTracker == InitTracker /\ [][NextTracker]_vars

(***************************************************************************)
(* Claims about MultiScaleAnomaly (checked under SpecTracker)              *)
(***************************************************************************)
\* the entries of seq, as a set
Range(seq) == {seq[i] : i \in 1..Len(seq)}

\* the last n entries of seq (all of them when it has fewer)
LastN(seq, n) == SubSeq(seq, Max2(1, Len(seq) - n + 1), Len(seq))

\* C11: the signature scored is pushed only after every per-scale score has been
\* computed: the scores a call returns are those of its query against the rings
\* as the call found them, which hold only mappings of earlier calls, so the
\* t-th score depends only on calls 1..t-1 and never on the query's own entry.
C11_ScoreStep ==
  (tRet'.op = "update_and_score" /\ fed' # fed) =>
    /\ fed' = Append(fed, to_dict(tRet'.arg[1]))
    /\ \A s \in scales :
         /\ Range(hist[s]) \subseteq Range(fed)
         /\ tRet'.per[s] = ONE - topk_avg(hist[s], to_dict(tRet'.arg[1]), knn_k)

C11_ScoreBeforePush == [][C11_ScoreStep]_vars

\* a non-empty signature, now in a ring, was scored as entirely novel against
\* a non-empty history
C11_Witness ==
  /\ tRet.op = "update_and_score"
  /\ Len(fed) >= 2
  /\ tRet.arg[1].positions # <<>>
  /\ \E s \in scales :
       /\ tRet.per[s] = ONE
       /\ Len(hist[s]) >= 2
       /\ hist[s][Len(hist[s])] = to_dict(tRet.arg[1])

\* C12: after t calls the ring of every scale s >= 1 holds exactly the
\* min(t, s) most recently pushed mappings in arrival order: never more than its
\* capacity, the oldest evicted on overflow.
C12_RingContents ==
  \A s \in scales :
    s >= 1 =>
      /\ Len(hist[s]) = Min2(Len(fed), s)
      /\ Len(hist[s]) <= s
      /\ hist[s] = LastN(fed, s)

\* a ring has overflowed and evicted an entry that differs from all it keeps
C12_Witness ==
  \E s \in scales :
    /\ s >= 1
    /\ Len(fed) > s
    /\ fed[1] \notin Range(hist[s])

\* m is the mean of the min(kk, n) largest of the n > 0 similarities sims
IsTopkMean(sims, kk, m) ==
  \E J \in SUBSET (1..Len(sims)) :
    /\ Cardinality(J) = Min2(kk, Len(sims))
    /\ \A i \in J : \A j \in (1..Len(sims)) \ J : sims[i] >= sims[j]
    /\ m = SumOver(sims, J) \div Cardinality(J)

\* the ring of scale s as the last call found it
RingBefore(s) == IF s >= 1 THEN LastN(SubSeq(fed, 1, Len(fed) - 1), s) ELSE <<>>

\* C13: update_and_score returns one novelty per configured scale, 1 minus the
\* mean of the top knn_k cosines between the query and the entries then in that
\* ring (of all entries when there are fewer, 0 hence novelty 1 on an empty
\* ring), and a combined score that is the arithmetic mean of those novelties.
C13_Scores ==
  tRet.op = "update_and_score" =>
    /\ DOMAIN tRet.per = scales
    /\ \A s \in scales :
         LET ring == RingBefore(s)
             sims == Array([i \in 1..Len(ring) |-> sparse_cosine(to_dict(tRet.arg[1]), ring[i])])
         IN  IF Len(ring) = 0 THEN tRet.per[s] = ONE
             ELSE IsTopkMean(sims, knn_k, ONE - tRet.per[s])
    /\ scales # {} =>
         /\ tRet.combined * Cardinality(scales) <= SumOver(tRet.per, scales)
         /\ (tRet.combined + 1) * Cardinality(scales) > SumOver(tRet.per, scales)

\* a score strictly between 0 and 1 at one scale, another at the other scale
C13_Witness ==
  /\ tRet.op = "update_and_score"
  /\ \E s1, s2 \in scales :
       /\ tRet.per[s1] > 0
       /\ tRet.per[s1] < tRet.per[s2]
       /\ tRet.per[s2] < ONE

\* the calls so far fed N >= 2 copies of one non-empty signature and then one
\* signature that shares no position with it
ScenarioC ==
  /\ Len(fed) >= 3
  /\ DOMAIN fed[1] # {}
  /\ \A i \in 1..(Len(fed) - 1) : fed[i] = fed[1]
  /\ DOMAIN fed[Len(fed)] \cap DOMAIN fed[1] = {}

\* the last combined novelty exceeds the average of those of points 2..N
LastAboveAverage ==
  trace[Len(trace)] * (Len(trace) - 2) > Sum(SubSeq(trace, 2, Len(trace) - 1))

\* C14: Scenario C as stated: any tracker fed N >= 2 copies of one non-empty
\* signature and then a signature sharing no position with it reports for the
\* last point a combined novelty strictly above the average of points 2..N.
C14_ScenarioC == ScenarioC => LastAboveAverage

\* C14 (amended): the same on a tracker that has at least one scale of capacity
\* >= 1.
C14_ScenarioC_Scaled == (ScenarioC /\ \E s \in scales : s >= 1) => LastAboveAverage

\* Scenario C has run on a tracker with a scale of capacity >= 1
C14_Witness ==
  /\ ScenarioC
  /\ \E s \in scales : s >= 1
  /\ tRet.combined > 0

(***************************************************************************)
(* The kernel's base cosine (kk-kernel.js).  A kernel signature is         *)
(* [positions, elevations] with strictly ascending positions.              *)
(***************************************************************************)
\* dict: d[positions[i]] = elevations[i], a later entry of a repeated position winning
dict(sig) ==
  LET Last(p) == CHOOSE i \in 1..Len(sig.positions) :
                   /\ sig.positions[i] = p
                   /\ \A j \in (i + 1)..Len(sig.positions) : sig.positions[j] # p
  IN  [p \in {sig.positions[i] : i \in 1..Len(sig.positions)} |-> sig.elevations[Last(p)]]

\* the square of l2(arr)
l2sq(arr) == Sum(Array([i \in 1..Len(arr) |-> arr[i] * arr[i]]))

\* dot / (nQ * nX + eps) in units of 1/ONE, 0 when the dot is 0; eps = 1e-12 is
\* below the resolution 1/ONE beside a product of norms >= 1
baseCosine(Q, X) ==
  LET Dot(Qd, Xd) ==
        Sum(Array([i \in 1..Len(Q.positions) |->
                    IF Q.positions[i] \in DOMAIN Xd
                    THEN Qd[Q.positions[i]] * Xd[Q.positions[i]] ELSE 0]))
      Ratio(dot) ==
        IF dot = 0 THEN 0
        ELSE (dot * ONE * ONE) \div Sqrt(l2sq(Q.elevations) * l2sq(X.elevations) * ONE * ONE)
  IN  Ratio(Dot(dict(Q), dict(X)))

\* the coefficient of eps in dot / (nQ * nX + eps), which is
\* -cosine / (nQ * nX), in units of 1/ONE
baseCosineEps(Q, X) ==
  IF baseCosine(Q, X) = 0 THEN 0
  ELSE -((baseCosine(Q, X) * ONE)
           \div Sqrt(l2sq(Q.elevations) * l2sq(X.elevations) * ONE * ONE))

\* mutant: the M positions of smallest elevation taken
anomalySet_Lowest(Q, M) ==
  LET n == Len(Q.positions)
      RankOf(i) ==
        1 + Cardinality({m \in 1..n : Q.elevations[m] < Q.elevations[i]
                                      \/ (Q.elevations[m] = Q.elevations[i] /\ m < i)})
  IN  {Q.positions[i] : i \in {j \in 1..n : RankOf(j) <= Min2(M, n)}}

\* pairs.sort((a, b) => b.e - a.e) (stable), .slice(0, Math.min(M, pairs.length)),
\* as the set of the positions: pair i goes to the place given by the number of
\* pairs that sort before it (larger elevation, or equal and earlier); M >= 0
anomalySet(Q, M) ==
  LET n == Len(Q.positions)
      RankOf(i) ==
        1 + Cardinality({m \in 1..n : Q.elevations[m] > Q.elevations[i]
                                      \/ (Q.elevations[m] = Q.elevations[i] /\ m < i)})
  IN  {Q.positions[i] : i \in {j \in 1..n : RankOf(j) <= Min2(M, n)}}

\* hit / A.size in units of 1/ONE
anomalyOverlapFrac(Q, X, M) ==
  LET Frac(A, Xset) ==
        IF A = {} THEN 0 ELSE (Cardinality(A \cap Xset) * ONE) \div Cardinality(A)
  IN  Frac(anomalySet(Q, M), {X.positions[i] : i \in 1..Len(X.positions)})

\* dot / (sqrt(nQa2) * sqrt(nXa2) + eps) over the positions of A, q = Qd[p] || 0 and
\* x = Xd[p] || 0, in units of 1/ONE; 0 when A is empty or the dot is 0
anomalyAgreementCosine(Q, X, M) ==
  LET Or0(d, p) == IF p \in DOMAIN d THEN d[p] ELSE 0
      Ratio(dot, nQa2, nXa2) ==
        IF dot = 0 THEN 0 ELSE (dot * ONE * ONE) \div Sqrt(nQa2 * nXa2 * ONE * ONE)
      Over(A, Qd, Xd) ==
        Ratio(SumKeys([p \in A |-> Or0(Qd, p) * Or0(Xd, p)], A),
              SumKeys([p \in A |-> Or0(Qd, p) * Or0(Qd, p)], A),
              SumKeys([p \in A |-> Or0(Xd, p) * Or0(Xd, p)], A))
  IN  Over(anomalySet(Q, M), dict(Q), dict(X))

\* kkScore: mult = 1 + beta * a + gamma * b, total = base * mult; beta, gamma and
\* every field in units of 1/ONE
kkScore(Q, X, beta, gamma, M) ==
  LET Score(base, a, b) ==
        [base |-> base, a |-> a, b |-> b,
         mult |-> ONE + (beta * a + gamma * b) \div ONE,
         total |-> (base * (ONE + (beta * a + gamma * b) \div ONE)) \div ONE]
  IN  Score(baseCosine(Q, X), anomalyOverlapFrac(Q, X, M), anomalyAgreementCosine(Q, X, M))

(***************************************************************************)
(* cosineSparse and baseCosine on pairs of signatures: the pair is drawn   *)
(* at the start and the step calls the function in both orders.  A third   *)
(* kind of start draws a vector, which the step encodes twice and compares *)
(* with itself.                                                            *)
(***************************************************************************)
MaxPos == 2

\* values of the signatures compared by cosineSparse, elevations of those
\* compared by baseCosine
CosVals == {-1, 2}

KerVals == {1, 2}

\* largest anomaly-subspace size M handed to kkScore
MaxM == 3

\* the weights beta, gamma handed to kkScore (0, 1/2 and 2), in units of 1/ONE
Weights == {0, 500, 2000}

\* the elements of P in ascending order
RECURSIVE AscendingSeq(_)
AscendingSeq(P) ==
  IF P = {} THEN <<>>
  ELSE LET lo == CHOOSE x \in P : \A y \in P : x <= y
       IN  <<lo>> \o AscendingSeq(P \ {lo})

\* the signature encodeSparseSignature returns for support P with values f
SparseSig(P, f) ==
  LET Of(idx) == [idx |-> idx, val |-> Array([i \in 1..Len(idx) |-> f[idx[i]]]),
                  norm2 |-> Sum(Array([i \in 1..Len(idx) |-> f[idx[i]] * f[idx[i]]]))]
  IN  Of(AscendingSeq(P))

SparseSigs == UNION { { SparseSig(P, f) : f \in [P -> CosVals] } : P \in SUBSET (0..MaxPos) }

KernelSig(P, f) ==
  LET Of(positions) ==
        [positions |-> positions,
         elevations |-> Array([i \in 1..Len(positions) |-> f[positions[i]]])]
  IN  Of(AscendingSeq(P))

KernelSigs == UNION { { KernelSig(P, f) : f \in [P -> KerVals] } : P \in SUBSET (0..MaxPos) }

\* the vectors encoded and compared with themselves, with the clip quantile
SelfArgs ==
  { [vec |-> v, clip |-> c] : v \in [1..3 -> Entries] \cup Vectors, c \in {NoClip, HalfClip} }

CosineInit ==
  /\ \/ cA \in SparseSigs /\ cB \in SparseSigs
     \/ cA \in KernelSigs /\ cB \in KernelSigs
     \/ cA \in SelfArgs /\ cB = cA
  /\ cOut = [op |-> "new", ab |-> 0, ba |-> 0]

\* cosineSparse(a, b) and cosineSparse(b, a)
CosineSparse ==
  /\ cOut.op = "new"
  /\ "idx" \in DOMAIN cA
  /\ cOut' = [op |-> "cosineSparse", ab |-> cosineSparse(cA, cB), ba |-> cosineSparse(cB, cA)]
  /\ UNCHANGED <<cA, cB, detVars, qVars, encVars, trkVars>>

\* baseCosine(Q, X) and baseCosine(X, Q)
BaseCosine ==
  /\ cOut.op = "new"
  /\ "positions" \in DOMAIN cA
  /\ cOut' = [op |-> "baseCosine", ab |-> baseCosine(cA, cB), ba |-> baseCosine(cB, cA),
               eps |-> baseCosineEps(cA, cB)]
  /\ UNCHANGED <<cA, cB, detVars, qVars, encVars, trkVars>>

\* s = encodeSparseSignature(vec, options); cosineSparse(s, s) and
\* distanceSparse(s, s), under the detector's default k and hashing
SelfCosine ==
  /\ cOut.op = "new"
  /\ "vec" \in DOMAIN cA
  /\ LET Compared(sa, sb, m4) ==
            cOut' = [op |-> "selfCosine", sig |-> sa,
                     ab |-> cosineSparse(sa, sb), ba |-> distanceSparse(sa, sb),
                     eps |-> cosineSparseEps(sa, sb, m4, m4)]
     IN  Compared(encodeSparseSignature(cA.vec, BaseConfig.k, BaseConfig.hashing, cA.clip),
                  encodeSparseSignature(cB.vec, BaseConfig.k, BaseConfig.hashing, cB.clip),
                  mad4(cA.vec))
  /\ UNCHANGED <<cA, cB, detVars, qVars, encVars, trkVars>>

\* cosineSparse(a, b) up to its loop: let i = 0, j = 0, dot = 0; advances counts
\* the cursor increments made so far
MergeStart ==
  /\ cOut.op = "new"
  /\ "idx" \in DOMAIN cA
  /\ cOut' = [op |-> "merge", i |-> 0, j |-> 0, dot |-> 0, advances |-> 0]
  /\ UNCHANGED <<cA, cB, detVars, qVars, encVars, trkVars>>

\* while (i < ai.length && j < bi.length) { ... }: one iteration
MergeLoop ==
  /\ cOut.op = "merge"
  /\ cOut.i < Len(cA.idx) /\ cOut.j < Len(cB.idx)
  /\ LET After(st) ==
            cOut' = [op |-> "merge", i |-> st.i, j |-> st.j, dot |-> st.dot,
                     advances |-> cOut.advances + (st.i - cOut.i) + (st.j - cOut.j)]
     IN  After(MergeStep(cA, cB, [i |-> cOut.i, j |-> cOut.j, dot |-> cOut.dot]))
  /\ UNCHANGED <<cA, cB, detVars, qVars, encVars, trkVars>>

\* kkScore(Q, X, beta, gamma, M)
KkScore ==
  /\ cOut.op = "new"
  /\ "positions" \in DOMAIN cA
  /\ \E M \in 0..MaxM, beta \in Weights, gamma \in Weights :
       cOut' = [op |-> "kkScore", M |-> M, beta |-> beta, gamma |-> gamma,
                value |-> kkScore(cA, cB, beta, gamma, M)]
  /\ UNCHANGED <<cA, cB, detVars, qVars, encVars, trkVars>>

InitCosine == DetectorIdle /\ QuantileIdle /\ EncoderIdle /\ TrackerIdle /\ CosineInit

NextCosine == CosineSparse \/ BaseCosine \/ SelfCosine \/ KkScore \/ MergeStart \/ MergeLoop

SpecCosine == InitCosine /\ [][NextCosine]_vars

(***************************************************************************)
(* Claims about the similarities (checked under SpecCosine)                *)
(***************************************************************************)
\* C20: symmetry: for all pairs of signatures cosineSparse(a, b) =
\* cosineSparse(b, a), and baseCosine(Q, X) = baseCosine(X, Q).
C20_Symmetry ==
  cOut.op \in {"cosineSparse", "baseCosine"} => cOut.ab = cOut.ba

\* two signatures of different supports and norms with a negative cosine
C20_Witness ==
  /\ cOut.op = "cosineSparse"
  /\ Len(cA.idx) # Len(cB.idx)
  /\ cA.norm2 # cB.norm2
  /\ cOut.ab < 0
  /\ cOut.ab > -ONE

(***************************************************************************)
(* Self-similarity (checked under SpecCosine)                              *)
(***************************************************************************)
\* C21: self-similarity: for any vector whose signature is non-empty the cosine
\* of the signature with itself is exactly 1 and its distance to itself 0; the
\* base cosine of a kernel signature with an identical copy is exactly 1.
C21_SelfSimilarity ==
  /\ (cOut.op = "selfCosine" /\ cOut.sig.idx # <<>>) =>
        cOut.ab = ONE /\ cOut.eps = 0 /\ cOut.ba = 0
  /\ (cOut.op = "baseCosine" /\ cA = cB /\ cA.positions # <<>>) =>
        cOut.ab = ONE /\ cOut.eps = 0

(***************************************************************************)
(* The kernel score (checked under SpecCosine)                             *)
(***************************************************************************)
\* the positions of a kernel signature
Positions(Q) == {Q.positions[i] : i \in 1..Len(Q.positions)}

\* A is the set of the min(M, |positions(Q)|) positions of Q with largest
\* elevation, ties broken by ascending position
IsTopSet(A, Q, M) ==
  /\ A \subseteq Positions(Q)
  /\ Cardinality(A) = Min2(M, Cardinality(Positions(Q)))
  /\ \A p \in A, r \in Positions(Q) \ A :
       dict(Q)[p] > dict(Q)[r] \/ (dict(Q)[p] = dict(Q)[r] /\ p < r)

\* the cosine of Q and X over the coordinates P only, zero-filled, in units of 1/ONE
CosineOver(P, Q, X) ==
  LET At(S, p) == IF p \in Positions(S) THEN dict(S)[p] ELSE 0
      dot == SumKeys([p \in P |-> At(Q, p) * At(X, p)], P)
      nQ2 == SumKeys([p \in P |-> At(Q, p) * At(Q, p)], P)
      nX2 == SumKeys([p \in P |-> At(X, p) * At(X, p)], P)
  IN  IF dot = 0 THEN 0 ELSE (dot * ONE * ONE) \div Sqrt(nQ2 * nX2 * ONE * ONE)

\* C22: kkScore(Q, X, beta, gamma, M) returns base = cosine(Q, X), overlap =
\* |A_Q \cap positions(X)| / |A_Q| (0 when A_Q is empty), agreement = the cosine
\* over the coordinates of A_Q only, and total = base * (1 + beta * overlap +
\* gamma * agreement), A_Q being the min(M, |positions(Q)|) positions of Q with
\* largest elevation, ties broken by ascending position.
C22_KkScore ==
  cOut.op = "kkScore" =>
    \E A \in SUBSET Positions(cA) :
      /\ IsTopSet(A, cA, cOut.M)
      /\ cOut.value.base = CosineOver(Positions(cA) \cup Positions(cB), cA, cB)
      /\ cOut.value.a = IF A = {} THEN 0
                        ELSE (Cardinality(A \cap Positions(cB)) * ONE) \div Cardinality(A)
      /\ cOut.value.b = CosineOver(A, cA, cB)
      /\ cOut.value.total =
           (cOut.value.base * (ONE + (cOut.beta * cOut.value.a
                                        + cOut.gamma * cOut.value.b) \div ONE)) \div ONE

\* M cuts through a tie of elevations, X holds some of A_Q and not all, and
\* the agreement differs from the base cosine
C22_Witness ==
  /\ cOut.op = "kkScore"
  /\ cOut.M = 2
  /\ cA.positions = <<0, 1, 2>>
  /\ cA.elevations = <<1, 2, 1>>
  /\ cOut.value.a = 500
  /\ cOut.value.b > 0
  /\ cOut.value.b # cOut.value.base
  /\ cOut.beta > 0
  /\ cOut.gamma > 0
  /\ cOut.value.total > cOut.value.base

(***************************************************************************)
(* Collision resolution (checked under SpecEncode).  The placement is      *)
(* restated from the holders' side: H[p] is the feature holding position   *)
(* p, for the positions p held.                                            *)
(***************************************************************************)
\* the holders once feature f holds position p
Hold(H, p, f) == [q \in DOMAIN H \cup {p} |-> IF q = p THEN f ELSE H[q]]

\* the elevations of the vector handed to the last call
LastElev == Elevation(robustZ(eOut.arg[1]), eClip)

\* the features retained by the ranking whose elevation is nonzero, in ranking order
RetainedFeatures(elev) ==
  LET Kept(ranked) == IF eK < Len(elev) THEN Slice(ranked, eK) ELSE ranked
  IN  SelectSeq(Kept(RankByElev(Len(elev), elev)), LAMBDA f : elev[f + 1] # 0)

\* an auxiliary tie-break hash of (feature index, value)
TieHash(i, v) == (blake2bIndex(i, 840, "salt2") + v) % 840

\* the holders after feature f has claimed its slot: p1 if free, else p2 if tried
\* and free, else the larger magnitude of f and the holder of p1 holds p1; a tie
\* goes to either of them, to the incumbent or to the larger tie-break hash
ClaimSlot(H, f, elev, tryP2, tie) ==
  LET p1 == blake2bIndex(f, eHashing.dim, "salt1")
      p2 == blake2bIndex(f, eHashing.dim, "salt2")
      Contend(mine, theirs) ==
        IF mine > theirs THEN {Hold(H, p1, f)}
        ELSE IF mine < theirs THEN {H}
        ELSE IF tie = "either" THEN {H, Hold(H, p1, f)}
        ELSE IF tie = "incumbent" THEN {H}
        ELSE IF TieHash(f, elev[f + 1]) > TieHash(H[p1], elev[H[p1] + 1])
             THEN {Hold(H, p1, f)}
             ELSE {H}
  IN  IF p1 \notin DOMAIN H THEN {Hold(H, p1, f)}
      ELSE IF tryP2 /\ p2 \notin DOMAIN H THEN {Hold(H, p2, f)}
      ELSE Contend(Abs(elev[f + 1]), Abs(elev[H[p1] + 1]))

RECURSIVE Outcomes(_, _, _, _, _)
Outcomes(Hs, feats, elev, tryP2, tie) ==
  IF feats = <<>> THEN Hs
  ELSE Outcomes(UNION {ClaimSlot(H, Head(feats), elev, tryP2, tie) : H \in Hs},
                Tail(feats), elev, tryP2, tie)

\* the signature in which every held position carries its holder's elevation
SignatureOf(H, elev) ==
  LET Of(idx) ==
        [idx |-> idx, val |-> Array([i \in 1..Len(idx) |-> elev[H[idx[i]] + 1]]),
         norm2 |-> Sum(Array([i \in 1..Len(idx) |-> elev[H[idx[i]] + 1] * elev[H[idx[i]] + 1]]))]
  IN  Of(AscendingSeq(DOMAIN H))

\* the returned signature is one the resolution rule allows
ResolvedBy(tryP2, tie) ==
  EncodeReturned =>
    LET Allowed(elev) ==
          Outcomes({<<>>}, RetainedFeatures(elev),
                   elev, tryP2, tie)
        Among(elev) == \E H \in Allowed(elev) : eOut.value[1] = SignatureOf(H, elev)
    IN  Among(LastElev)

\* C23: each retained feature with nonzero elevation claims p1 if it is free,
\* otherwise p2 if that is free, and otherwise contends for p1 with its
\* incumbent: the larger |elevation| of the two holds p1 in the output and the
\* other is dropped.
C23_CollisionResolution == ResolvedBy(TRUE, "either")

\* C23 as amended: p2 is tried only with double hashing enabled
\* (hashing.useDoubleHash, the default); with it disabled a feature whose p1 is
\* taken contends for p1 at once.
C23_CollisionResolution_Double == ResolvedBy(eHashing.useDoubleHash, "either")

\* the returned signature carries the elevation of feature f at position p
CarriesAt(f, p, elev) ==
  \E i \in 1..Len(eOut.value[1].idx) :
    eOut.value[1].idx[i] = p /\ eOut.value[1].val[i] = elev[f + 1]

\* the returned signature has a position taken by a feature f as its p1, one
\* taken by a feature g as its p2 because its p1 was held, and a feature h
\* dropped, of smaller magnitude than the holder of its p1 and with its p2 held
C23_Witness ==
  /\ EncodeReturned
  /\ eHashing.useDoubleHash
  /\ LET P1(f) == blake2bIndex(f, eHashing.dim, "salt1")
         P2(f) == blake2bIndex(f, eHashing.dim, "salt2")
         Held(p) == \E i \in 1..Len(eOut.value[1].idx) : eOut.value[1].idx[i] = p
         Shown(elev, feats) ==
           \E i, j, l \in 1..Len(feats) :
             /\ i < j /\ j < l
             /\ CarriesAt(feats[i], P1(feats[i]), elev)
             /\ P1(feats[j]) = P1(feats[i])
             /\ P2(feats[j]) # P1(feats[j])
             /\ CarriesAt(feats[j], P2(feats[j]), elev)
             /\ P1(feats[l]) = P1(feats[i])
             /\ Held(P2(feats[l]))
             /\ Abs(elev[feats[l] + 1]) < Abs(elev[feats[i] + 1])
             /\ Len(eOut.value[1].idx) = 2
     IN  Shown(LastElev, RetainedFeatures(LastElev))

ValueAt(sig, p) == sig.val[CHOOSE i \in 1..Len(sig.idx) : sig.idx[i] = p]

\* the dot a position-to-value map lookup gives: the sum of value_a * value_b
\* over the positions present in both signatures
LookupDot(a, b) ==
  LET Common == {a.idx[i] : i \in 1..Len(a.idx)} \cap {b.idx[j] : j \in 1..Len(b.idx)}
  IN  SumKeys([p \in Common |-> ValueAt(a, p) * ValueAt(b, p)], Common)

MergeEnded == cOut.op = "merge" /\ ~(cOut.i < Len(cA.idx) /\ cOut.j < Len(cB.idx))

\* C25: for two signatures with strictly ascending positions the two-cursor
\* merge ends with a dot equal to the sum of value_a * value_b over exactly the
\* positions present in both, and makes at most |a| + |b| cursor advances.
C25_MergeDot ==
  cOut.op = "merge" =>
    /\ cOut.advances <= Len(cA.idx) + Len(cB.idx)
    /\ MergeEnded => cOut.dot = LookupDot(cA, cB)

\* the loop has ended on two signatures that share a position and each hold one
\* the other lacks, with one cursor short of its end
C25_Witness ==
  /\ MergeEnded
  /\ cOut.dot # 0
  /\ \E i \in 1..Len(cA.idx) : \A j \in 1..Len(cB.idx) : cA.idx[i] # cB.idx[j]
  /\ \E j \in 1..Len(cB.idx) : \A i \in 1..Len(cA.idx) : cA.idx[i] # cB.idx[j]
  /\ cOut.advances < Len(cA.idx) + Len(cB.idx)

(***************************************************************************)
(* The first calibrate call of a detector, on collections of up to         *)
(* MaxCalPool vectors                                                      *)
(***************************************************************************)
MaxCalPool == 3

\* calibration vectors: those of the detector and one more
CalVectors == Vectors \cup { <<3, 0, 0, 1>> }

CalSamples == UNION { [1..n -> CalVectors] : n \in 0..MaxCalPool }

NextCalibrate == ret.op = "new" /\ \E S \in CalSamples : Calibrate(S)

SpecCalibrate == Init /\ [][NextCalibrate]_vars

\* C26: calibrate gives pool member i a score equal to the mean of its
\* min(kNN, n - 1) smallest distances to the other pool members j # i, never
\* counting its distance to itself; a pool of fewer than kNN + 1 members uses
\* all n - 1 others.
C26_LeaveOneOut ==
  (ret.op = "calibrate" /\ Len(calSigs) >= 2) =>
    /\ Len(calScores) = Len(calSigs)
    /\ \A i \in 1..Len(calSigs) :
         LET Others == (1..Len(calSigs)) \ {i}
             Dist(j) == distanceSparse(calSigs[i], calSigs[j])
         IN  \E J \in SUBSET Others :
               /\ Cardinality(J) = Min2(kNN, Len(calSigs) - 1)
               /\ (Len(calSigs) < kNN + 1) => J = Others
               /\ \A a \in J : \A b \in Others \ J : Dist(a) <= Dist(b)
               /\ calScores[i] =
                    SumOver([j \in 1..Len(calSigs) |-> Dist(j)], J) \div Cardinality(J)

\* calibrate has scored a pool of three with kNN = 1: a member whose two
\* neighbours lie at different distances scores the nearer one, above 0
C26_Witness ==
  /\ ret.op = "calibrate"
  /\ Len(calSigs) = 3
  /\ kNN = 1
  /\ \E i \in 1..3 : \E a, b \in (1..3) \ {i} :
       /\ distanceSparse(calSigs[i], calSigs[a]) < distanceSparse(calSigs[i], calSigs[b])
       /\ calScores[i] = distanceSparse(calSigs[i], calSigs[a])
       /\ calScores[i] > 0

(***************************************************************************)
(* The threshold between calibrations (checked under Spec)                 *)
(***************************************************************************)
\* a step other than a calibrate call that returns leaves a set threshold set,
\* at or below its value before the step
C27_ThresholdStep ==
  (thr # Undefined /\ ~(ret'.op = "calibrate" /\ ret'.error = "")) =>
    /\ thr' # Undefined
    /\ thr'[1] <= thr[1]

\* C27: between two successful calibrate calls the threshold never increases:
\* every updateIfNormal call leaves it less than or equal to its value before the
\* call, so over any sequence of predict and updateIfNormal calls it stays at or
\* below the value calibrate returned.
C27_ThresholdNeverIncreases == [][C27_ThresholdStep]_vars

\* updateIfNormal has absorbed a point and the threshold is strictly below the
\* quantile of the scores held before the call
C27_Witness ==
  /\ ret.op = "updateIfNormal"
  /\ ret.value = <<TRUE>>
  /\ Len(calScores) >= 2
  /\ thr[1] < conformalQuantile(SubSeq(calScores, 1, Len(calScores) - 1), alpha)

\* ---------------------------------------------------------------------------
\* C28: encode, nonconformity, threshold and predict are read-only: whether
\* the call returns or throws, the calibration pool, the calibration scores
\* and the threshold are afterwards what they were before the call.
ReadOnlyOps == {"encode", "nonconformity", "threshold", "predict"}

C28_ReadOnlyStep ==
  ret'.op \in ReadOnlyOps =>
    /\ calSigs' = calSigs
    /\ calScores' = calScores
    /\ thr' = thr

C28_ReadOnly == [][C28_ReadOnlyStep]_vars

\* a nonconformity call has thrown on a detector whose pool is empty while
\* its scores and its threshold are still those of an earlier calibration
C28_Witness ==
  /\ ret.op = "nonconformity"
  /\ ret.error # ""
  /\ calSigs = <<>>
  /\ calScores # <<>>
  /\ thr # Undefined

\* ---------------------------------------------------------------------------
\* lo is what remains of hi after dropping its oldest entries
IsSuffix(lo, hi) ==
  /\ Len(lo) <= Len(hi)
  /\ lo = SubSeq(hi, Len(hi) - Len(lo) + 1, Len(hi))

DefaultClip == [num |-> 19, den |-> 20]

\* calls with elevation damping enabled: the default quantile and 0.5
ClipConfigs ==
  UNION { { Option(kk, 4, TRUE, DefaultClip), Option(kk, 4, TRUE, HalfClip) } : kk \in 1..MaxK }

ClipInit ==
  /\ eVec \in EncVectors
  /\ \E c \in ClipConfigs : eK = c.k /\ eHashing = c.hashing /\ eClip = c.clip
  /\ eOut = [op |-> "idle", arg |-> <<>>, error |-> "", value |-> <<>>]
  /\ eFirst = <<>>
  /\ eCalls = <<>>

InitClip == DetectorIdle /\ QuantileIdle /\ ClipInit /\ TrackerIdle /\ CosineIdle

SpecClip == InitClip /\ [][NextEncode]_vars

\* C30: with clipQuantile q strictly between 0 and 1 and an input of n >= 1
\* entries, encodeSparseSignature returns at most n - ceil(n * q) positions;
\* with the default q = 0.95 every vector of fewer than 20 entries encodes to
\* the empty signature, whatever its values.
C30_ClipBound ==
  (eOut.op = "encodeSparseSignature" /\ eOut.error = "") =>
    LET n == Len(eOut.arg[1])
        sig == eOut.value[1]
    IN  /\ (0 < eClip.num /\ eClip.num < eClip.den /\ n >= 1) =>
             Len(sig.idx) <= n - CeilDiv(n * eClip.num, eClip.den)
        /\ (eClip = DefaultClip /\ n < 20) => sig = EmptySignature


====
